---- MODULE Spec2Model ----
(***************************************************************************)
(* cvox.Focuser.setFocus (chromevox/common/focuser.js).                    *)
(*                                                                         *)
(* The document is a small tree of elements.  A behaviour is a sequence of *)
(* setFocus calls and of turns of the event loop that run the callbacks    *)
(* the calls handed to window.setTimeout(..., 0), oldest first.            *)
(***************************************************************************)
EXTENDS Integers, Sequences, FiniteSets

\* ---------------------------------------------------------------- bounds
MaxCalls == 2        \* setFocus calls in one behaviour of Spec
MaxSeqCalls == 3     \* setFocus calls in one behaviour of SpecSeq
MaxLevel == 1        \* highest suspension level drawn at start

\* ---------------------------------------------------------------- the document
Null == 0
Body == 1
Nodes == 1..5
\* parentNode of every node: 1 -> 2 -> 3 -> {4, 5}; nodes are numbered in
\* document order.  The parents of the body (html, the document) can never
\* be focusable, so the chain is cut at the body.
Parent == <<0, 1, 2, 3, 3>>

Kinds == {"DIV", "BUTTON", "TEXT", "TIME", "VIDEO", "IFRAME"}
\* tabIndex a node of each kind has in a fresh document
DefaultTabIndex(k) == IF k \in {"DIV", "VIDEO"} THEN -1 ELSE 0

\* selections: none, a range of the page, all the text of input n
NoSel == <<"none", 0>>
Ranges == {<<"range", 1>>}
AllTextOf(n) == <<"all", n>>

VARIABLES
  kind,           \* element class of every node (constructor, tagName, type)
  tabIndex,       \* tabIndex of every node
  activeElement,  \* document.activeElement
  selection,      \* first range of window.getSelection(), or NoSel
  suspendLevel,   \* state of cvox.ChromeVoxEventSuspender
  timers,         \* callbacks handed to window.setTimeout(f, 0), oldest first
  callsLeft,      \* setFocus calls the behaviour may still make
  callNo,         \* number of setFocus calls made
  last            \* what the last step did (history)

vars == <<kind, tabIndex, activeElement, selection, suspendLevel, timers,
          callsLeft, callNo, last>>

\* ---------------------------------------------------------------- DOM queries
tagName(n) == IF n = Body THEN "BODY"
              ELSE IF kind[n] \in {"TEXT", "TIME"} THEN "INPUT" ELSE kind[n]

isVideo(n) == kind[n] = "VIDEO"

typeAttr(n) == IF kind[n] = "TIME" THEN "time"
               ELSE IF kind[n] = "TEXT" THEN "text" ELSE "none"

parentNode(n) == Parent[n]

RECURSIVE isDescendantOfNode(_, _)
isDescendantOfNode(node, ancestor) ==
  IF node = Null \/ ancestor = Null THEN FALSE
  ELSE IF node = ancestor THEN TRUE
  ELSE isDescendantOfNode(parentNode(node), ancestor)

isFocusable(tab, n) == n # Null /\ tab[n] >= 0

isInputTypeText(n) == n # Null /\ kind[n] = "TEXT"

\* children of n in document order
RECURSIVE ChildrenFrom(_, _)
ChildrenFrom(n, c) ==
  IF c > Len(Parent) THEN <<>>
  ELSE (IF Parent[c] = n THEN <<c>> ELSE <<>>) \o ChildrenFrom(n, c + 1)

childNodes(n) == ChildrenFrom(n, 1)

\* first node below n, in pre-order, that is focusable; Null when none
RECURSIVE FindInList(_, _)
RECURSIVE FindBelow(_, _)
FindInList(tab, cs) ==
  IF cs = <<>> THEN Null
  ELSE LET c == Head(cs)
           below == FindBelow(tab, c)
       IN IF isFocusable(tab, c) THEN c
          ELSE IF below # Null THEN below
          ELSE FindInList(tab, Tail(cs))
FindBelow(tab, n) == FindInList(tab, childNodes(n))

findFocusableDescendant(tab, n) ==
  IF n = Null THEN Null ELSE FindBelow(tab, n)

\* ---------------------------------------------------------------- event suspender
areEventsSuspended(level) == level > 0
enterSuspendEvents(level) == level + 1
exitSuspendEvents(level) == level - 1

\* ---------------------------------------------------------------- Focuser
\* slip: the comparison of the type attribute is inverted
shouldEnterSuspendEvents_Inverted(n) ==
  IF isVideo(n) THEN FALSE
  ELSE IF typeAttr(n) # "time" THEN FALSE
  ELSE TRUE

shouldEnterSuspendEvents_(n) ==
  IF isVideo(n) THEN FALSE
  ELSE IF typeAttr(n) = "time" THEN FALSE
  ELSE TRUE

\* "Search up the parent chain until a focusable node is found."
RECURSIVE WalkUp(_, _)
WalkUp(tab, n) ==
  IF n # Null /\ ~isFocusable(tab, n) THEN WalkUp(tab, parentNode(n)) ELSE n

\* slip: the constructor test is missing
ForceVideoFocusable_AnyNode(tab, t) ==
  IF t # Null /\ ~isFocusable(tab, t)
  THEN [tab EXCEPT ![t] = 0] ELSE tab

\* slip: the special case is missing
ForceVideoFocusable_Never(tab, t) == tab

\* the video special case: the tabIndex map after lines 50-54
ForceVideoFocusable(tab, t) ==
  IF t # Null /\ isVideo(t) /\ ~isFocusable(tab, t)
  THEN [tab EXCEPT ![t] = 0] ELSE tab

\* slip: with focusDescendants the descendants are searched even when the
\* target is focusable
ResolveTarget_DescendantsAlways(tab, t, fd) ==
  IF fd
  THEN LET focusableDescendant == findFocusableDescendant(tab, t)
       IN IF focusableDescendant # Null THEN focusableDescendant ELSE t
  ELSE WalkUp(tab, t)

\* slip: focusDescendants is ignored
ResolveTarget_FlagIgnored(tab, t, fd) == WalkUp(tab, t)

\* slip: when no descendant is focusable the parent chain is searched
ResolveTarget_ThenAncestors(tab, t, fd) ==
  IF fd /\ ~isFocusable(tab, t)
  THEN LET focusableDescendant == findFocusableDescendant(tab, t)
       IN IF focusableDescendant # Null THEN focusableDescendant
          ELSE WalkUp(tab, t)
  ELSE WalkUp(tab, t)

\* the node targetNode names after lines 56-66
ResolveTarget(tab, t, fd) ==
  IF fd /\ ~isFocusable(tab, t)
  THEN LET focusableDescendant == findFocusableDescendant(tab, t)
       IN IF focusableDescendant # Null THEN focusableDescendant ELSE t
  ELSE WalkUp(tab, t)

\* the first blur, lines 44-47
BlursFirst(t) ==
  activeElement # Null /\ ~isDescendantOfNode(t, activeElement)

\* slip: the IFRAME test is missing
SchedulesFocus_NoIframeTest(tab, r) == isFocusable(tab, r)

\* the branch of lines 75-92 is taken
SchedulesFocus(tab, r) == isFocusable(tab, r) /\ tagName(r) # "IFRAME"

\* the fallback blur of lines 94-97, given activeElement after the first blur
BlursFallback(tab, r, ae) ==
  ~isFocusable(tab, r) /\ ae # Null /\ tagName(ae) # "BODY"

\* slip: the captured range is not put back
RestoreSelection_TextOnly(r, range, cur) ==
  IF isInputTypeText(r) THEN AllTextOf(r) ELSE cur

\* the selection after lines 100-105, given the captured range and the
\* selection the blurs left
RestoreSelection(r, range, cur) ==
  IF isInputTypeText(r) THEN AllTextOf(r)
  ELSE IF range # NoSel THEN range
  ELSE cur

\* the calls the synchronous part of setFocus makes, in order
CallOps(t, fd) ==
  LET tab == ForceVideoFocusable(tabIndex, t)
      r == ResolveTarget(tab, t, fd)
      ae == IF BlursFirst(t) THEN Body ELSE activeElement
      susp == areEventsSuspended(suspendLevel)
  IN (IF BlursFirst(t) THEN <<"blur46">> ELSE <<>>)
     \o (IF tab # tabIndex THEN <<"setAttribute">> ELSE <<>>)
     \o (IF SchedulesFocus(tab, r)
         THEN (IF susp /\ shouldEnterSuspendEvents_(r)
               THEN <<"enterSuspendEvents">> ELSE <<>>) \o <<"setTimeout">>
         ELSE <<>>)
     \o (IF BlursFallback(tab, r, ae) THEN <<"blur96">> ELSE <<>>)
     \o (IF isInputTypeText(r) THEN <<"select">>
         ELSE IF selection # NoSel THEN <<"removeAllRanges", "addRange">>
         ELSE <<>>)

\* cvox.Focuser.setFocus(t, fd), up to its return.  "Chrome will lose [the
\* selection] if there's a focus or blur": after a blur the selection is
\* either what it was or gone.
setFocus(t, fd) ==
  LET range == selection
      tab == ForceVideoFocusable(tabIndex, t)
      r == ResolveTarget(tab, t, fd)
      ae1 == IF BlursFirst(t) THEN Body ELSE activeElement
      ae2 == IF BlursFallback(tab, r, ae1) THEN Body ELSE ae1
      blurred == BlursFirst(t) \/ BlursFallback(tab, r, ae1)
      curs == IF blurred THEN {selection, NoSel} ELSE {selection}
      susp == areEventsSuspended(suspendLevel)
      sched == SchedulesFocus(tab, r)
  IN /\ callsLeft > 0
     /\ callsLeft' = callsLeft - 1
     /\ callNo' = callNo + 1
     /\ kind' = kind
     /\ tabIndex' = tab
     /\ activeElement' = ae2
     /\ suspendLevel' = IF sched /\ susp /\ shouldEnterSuspendEvents_(r)
                        THEN enterSuspendEvents(suspendLevel)
                        ELSE suspendLevel
     /\ timers' = IF sched
                  THEN Append(timers, [node |-> r, exits |-> susp,
                                       call |-> callNo + 1, target |-> t,
                                       fd |-> fd,
                                       wasFocusable |->
                                         isFocusable(tabIndex, t)])
                  ELSE timers
     /\ \E cur \in curs : selection' = RestoreSelection(r, range, cur)
     /\ last' = [act |-> "call", call |-> callNo + 1, target |-> t,
                 fd |-> fd, resolved |-> r, ops |-> CallOps(t, fd),
                 suspendedAtCall |-> susp, suspendedNow |-> susp,
                 wasFocusable |-> isFocusable(tabIndex, t),
                 activeBefore |-> activeElement, range |-> range,
                 levelBefore |-> suspendLevel,
                 pendingBefore |-> Len(timers)]

SetFocus ==
  \E t \in Nodes \cup {Null}, fd \in BOOLEAN : setFocus(t, fd)

\* the calls a deferred callback makes, in order
TimerOps(cb) ==
  <<"focus">> \o (IF cb.exits THEN <<"exitSuspendEvents">> ELSE <<>>)

\* One turn of the event loop: the oldest deferred callback runs.  The
\* focus change may make the browser drop the selection.
RunTimer ==
  /\ timers # <<>>
  /\ LET cb == Head(timers)
     IN /\ timers' = Tail(timers)
        /\ activeElement' = cb.node
        /\ selection' \in (IF activeElement # cb.node
                            THEN {selection, NoSel} ELSE {selection})
        /\ suspendLevel' = IF cb.exits THEN exitSuspendEvents(suspendLevel)
                           ELSE suspendLevel
        /\ last' = [act |-> "timer", call |-> cb.call, target |-> cb.target,
                    fd |-> cb.fd, resolved |-> cb.node, ops |-> TimerOps(cb),
                    suspendedAtCall |-> cb.exits,
                    suspendedNow |-> areEventsSuspended(suspendLevel),
                    wasFocusable |-> cb.wasFocusable,
                    activeBefore |-> activeElement, range |-> selection,
                    levelBefore |-> suspendLevel,
                    pendingBefore |-> Len(timers)]
  /\ UNCHANGED <<kind, tabIndex, callsLeft, callNo>>

\* ---------------------------------------------------------------- specifications
NoStep == [act |-> "init", call |-> 0, target |-> Null, fd |-> FALSE,
           resolved |-> Null, ops |-> <<>>, suspendedAtCall |-> FALSE,
           suspendedNow |-> FALSE, wasFocusable |-> FALSE,
           activeBefore |-> Null, range |-> NoSel, levelBefore |-> 0,
           pendingBefore |-> 0]

\* the kinds drawn for each position of the tree
KindsAt(n) == IF n = Body THEN {"DIV"}
              ELSE IF n = 2 THEN {"DIV", "BUTTON"}
              ELSE IF n = 3 THEN {"DIV", "VIDEO", "IFRAME"}
              ELSE IF n = 4 THEN {"DIV", "TEXT", "TIME", "VIDEO"}
              ELSE {"DIV", "BUTTON"}

Documents == {k \in [Nodes -> Kinds] : \A n \in Nodes : k[n] \in KindsAt(n)}

InitWith(docs, n) ==
  /\ kind \in docs
  /\ tabIndex = [x \in Nodes |-> DefaultTabIndex(kind[x])]
  /\ activeElement = Body
  /\ selection \in Ranges \cup {NoSel}
  /\ suspendLevel \in 0..MaxLevel
  /\ timers = <<>>
  /\ callsLeft = n
  /\ callNo = 0
  /\ last = NoStep

Init == InitWith(Documents, MaxCalls)

Next == SetFocus \/ RunTimer

Spec == Init /\ [][Next]_vars

\* a fixed document for long call sequences:
\* body > button > video > { input type=time, input type=text }
SeqDocument == <<"DIV", "BUTTON", "VIDEO", "TIME", "TEXT">>

InitSeq == InitWith({SeqDocument}, MaxSeqCalls)

SpecSeq == InitSeq /\ [][Next]_vars

\* a callback handed to setTimeout(f, 0) runs on a later turn of the loop
FairSeq == SpecSeq /\ WF_vars(RunTimer)

TypeOK ==
  /\ kind \in [Nodes -> Kinds]
  /\ tabIndex \in [Nodes -> {-1, 0}]
  /\ activeElement \in Nodes
  /\ callsLeft \in Nat

\* ---------------------------------------------------------------- properties
IsCall == last.act = "call"
IsTimer == last.act = "timer"
Has(op) == \E i \in DOMAIN last.ops : last.ops[i] = op

\* the suspension and focus calls among the calls of the last step, in order
IsSuspendOp(o) ==
  o \in {"enterSuspendEvents", "exitSuspendEvents", "setTimeout", "focus"}
SuspendOps == SelectSeq(last.ops, IsSuspendOp)

\* the last call appended a callback that focuses n
Scheduled(n) ==
  /\ Len(timers) = last.pendingBefore + 1
  /\ timers[Len(timers)].node = n
  /\ timers[Len(timers)].call = last.call
  /\ timers[Len(timers)].exits = last.suspendedAtCall
  /\ Has("setTimeout")

NothingScheduled == Len(timers) = last.pendingBefore /\ ~Has("setTimeout")

NoSuspendCall ==
  /\ ~Has("enterSuspendEvents")
  /\ ~Has("exitSuspendEvents")
  /\ suspendLevel = last.levelBefore

IsIframe(n) == n # Null /\ tagName(n) = "IFRAME"
IsVideoNode(n) == n # Null /\ isVideo(n)
Excluded(n) == n # Null /\ (isVideo(n) \/ typeAttr(n) = "time")

\* a call leaves the tabIndex of every node but its target as it was
ProperAncestors(n) ==
  {a \in Nodes : a # n /\ isDescendantOfNode(n, a)}
ProperDescendants(n) ==
  {d \in Nodes : d # n /\ isDescendantOfNode(d, n)}
HasFocusableAncestor(n) ==
  n # Null /\ \E a \in ProperAncestors(n) : isFocusable(tabIndex, a)
FocusableBelow(n) ==
  IF n = Null THEN {}
  ELSE {d \in ProperDescendants(n) : isFocusable(tabIndex, d)}
\* nodes are numbered in document order: the first in pre-order is the least
FirstFocusableBelow(n) ==
  CHOOSE d \in FocusableBelow(n) : \A e \in FocusableBelow(n) : d <= e

\* C1: a call setFocus(N, fd) with N focusable and not an IFRAME, for either
\* fd, does not move the focus to N before it returns but hands setTimeout a
\* callback for N, and when that callback has run N holds the focus.
C1_FocusableTargetFocusedByCallback ==
  (last.wasFocusable /\ ~IsIframe(last.target)) =>
    /\ IsCall =>
         /\ last.resolved = last.target
         /\ Scheduled(last.target)
         /\ ~Has("focus")
         /\ activeElement = last.target => last.activeBefore = last.target
    /\ IsTimer =>
         /\ last.ops[1] = "focus"
         /\ activeElement = last.target

C1_Witness ==
  /\ IsTimer /\ last.wasFocusable /\ ~IsIframe(last.target) /\ last.fd
  /\ FocusableBelow(last.target) # {}
  /\ last.activeBefore # last.target
  /\ activeElement = last.target

\* C2: when events are suspended at the call and the resolved target is a
\* video element or has type="time", neither the call nor its deferred
\* callback invokes enterSuspendEvents or exitSuspendEvents.
C2_ExcludedTargetMakesNoSuspendCall ==
  (last.suspendedAtCall /\ Excluded(last.resolved)) =>
    /\ IsCall => NoSuspendCall
    /\ IsTimer => NoSuspendCall

\* C3: when events are suspended at the call and the resolved target is
\* focusable, not an IFRAME, not a video and not type="time", the call
\* invokes enterSuspendEvents once and then setTimeout, and the callback
\* invokes focus() on the target and then exitSuspendEvents once.
C3_EnterThenFocusThenExit ==
  (/\ last.suspendedAtCall
   /\ isFocusable(tabIndex, last.resolved)
   /\ ~IsIframe(last.resolved)
   /\ ~Excluded(last.resolved)) =>
    /\ IsCall =>
         /\ SuspendOps = <<"enterSuspendEvents", "setTimeout">>
         /\ suspendLevel = last.levelBefore + 1
         /\ Scheduled(last.resolved)
    /\ IsTimer =>
         /\ last.ops = <<"focus", "exitSuspendEvents">>
         /\ activeElement = last.resolved
         /\ suspendLevel = last.levelBefore - 1

C3_Witness ==
  /\ IsTimer /\ last.suspendedAtCall /\ ~Excluded(last.resolved)
  /\ last.ops = <<"focus", "exitSuspendEvents">>
  /\ last.activeBefore # last.resolved

\* what C4 says of a call
C4_Outcome ==
  /\ activeElement = Body
  /\ last.activeBefore # Body => (Has("blur46") \/ Has("blur96"))
  /\ NothingScheduled
  /\ NoSuspendCall

C4_Case ==
  /\ IsCall /\ ~last.fd /\ ~last.wasFocusable
  /\ ~HasFocusableAncestor(last.target)

\* C4 as stated: for every non-focusable target N without focusable
\* ancestor (a null target included) and focusDescendants false, the call
\* blurs the focused element unless it is the body, schedules no callback
\* and makes no suspension call.
C4_Original == C4_Case => C4_Outcome

\* C4, amended: the same for every such target that is not a video element.
C4_NothingFocusableBlurs ==
  (C4_Case /\ ~IsVideoNode(last.target)) => C4_Outcome

C4_Witness ==
  /\ C4_Case /\ ~IsVideoNode(last.target) /\ last.target # Null
  /\ last.activeBefore # Body
  /\ activeElement = Body

C5_Case ==
  /\ IsCall /\ last.fd /\ ~last.wasFocusable
  /\ FocusableBelow(last.target) # {}

\* the callback of such a call has just run
C5_Callback ==
  /\ IsTimer /\ last.fd /\ ~last.wasFocusable
  /\ ~IsVideoNode(last.target)
  /\ last.resolved \in ProperDescendants(last.target)

\* C5 as stated: for every call setFocus(N, true) with N not focusable and
\* with a focusable descendant, the resolved target is the first focusable
\* descendant D in pre-order, and D receives the focus when the callback runs.
C5_Original ==
  C5_Case =>
    /\ last.resolved = FirstFocusableBelow(last.target)
    /\ Scheduled(last.resolved)

\* C5, amended: the same for every such N that is not a video element, and
\* D receives the focus from the callback unless D is an IFRAME, for which
\* no callback is scheduled.
C5_FirstFocusableDescendant ==
  /\ (C5_Case /\ ~IsVideoNode(last.target)) =>
       /\ last.resolved = FirstFocusableBelow(last.target)
       /\ last.resolved \notin ProperAncestors(last.target)
       /\ IF IsIframe(last.resolved) THEN NothingScheduled
          ELSE Scheduled(last.resolved)
  /\ C5_Callback => activeElement = last.resolved

C5_Witness ==
  /\ C5_Callback
  /\ HasFocusableAncestor(last.target)
  /\ Cardinality(FocusableBelow(last.target)) >= 2
  /\ activeElement = FirstFocusableBelow(last.target)

C7_VideoStep ==
  (IsVideoNode(last.target) /\ ~last.wasFocusable) =>
    /\ tabIndex[last.target] = 0
    /\ last.resolved = last.target
    /\ IsCall => Has("setAttribute") /\ Scheduled(last.target)
    /\ IsTimer => activeElement = last.target
    /\ ~last.suspendedAtCall => NoSuspendCall

\* the callback of call c is waiting / has just run and focused a video
C7_Waiting(c) ==
  \E i \in DOMAIN timers :
    /\ timers[i].call = c
    /\ IsVideoNode(timers[i].target) /\ ~timers[i].wasFocusable
C7_Focused(c) ==
  /\ IsTimer /\ last.call = c
  /\ activeElement = last.target

\* C7: a video element is always treated as focusable: the state part holds
\* in every state, and the video of such a call is eventually focused.
C7_VideoAlwaysFocusable ==
  /\ []C7_VideoStep
  /\ \A c \in 1..MaxSeqCalls : C7_Waiting(c) ~> C7_Focused(c)

C7_Witness ==
  /\ IsTimer /\ IsVideoNode(last.target) /\ ~last.wasFocusable
  /\ ~last.suspendedAtCall
  /\ HasFocusableAncestor(last.target)
  /\ activeElement = last.target
  /\ last.ops = <<"focus">>

\* C8: when the resolved focusable target is an IFRAME, no callback is
\* scheduled, no suspension call is made whatever the suspension state, the
\* fallback blur is not executed, and focus() is never called on an IFRAME.
C8_IframeNeverFocused ==
  /\ (IsCall /\ isFocusable(tabIndex, last.resolved)
             /\ IsIframe(last.resolved)) =>
       /\ NothingScheduled
       /\ NoSuspendCall
       /\ ~Has("blur96")
  /\ \A i \in DOMAIN timers : ~IsIframe(timers[i].node)
  /\ IsTimer => ~IsIframe(last.resolved)

C8_Witness ==
  /\ IsCall /\ IsIframe(last.resolved) /\ last.suspendedAtCall
  /\ last.target # last.resolved
  /\ activeElement # Body

C9_Case ==
  /\ IsCall /\ last.fd /\ ~last.wasFocusable
  /\ last.target # Null
  /\ FocusableBelow(last.target) = {}

C9_Outcome ==
  /\ last.resolved = last.target
  /\ NothingScheduled
  /\ NoSuspendCall
  /\ activeElement = Body
  /\ last.activeBefore # Body => (Has("blur46") \/ Has("blur96"))

\* C9 as stated: with focusDescendants true, a non-focusable target without
\* focusable descendant is handled as "no focusable node found": the parent
\* chain is not walked, nothing is scheduled, the focused element is blurred
\* unless it is the body.
C9_Original == C9_Case => C9_Outcome

\* C9, amended: the same for every such target that is not a video element.
C9_NoDescendantNoAncestorWalk ==
  (C9_Case /\ ~IsVideoNode(last.target)) => C9_Outcome

C9_Witness ==
  /\ C9_Case /\ ~IsVideoNode(last.target)
  /\ last.activeBefore \in ProperAncestors(last.target)
  /\ last.activeBefore # Body
  /\ Has("blur96")
  /\ activeElement = Body

\* C10: with callbacks run oldest first and no other writer of the
\* suspension state, if events were suspended when setFocus was called with
\* a focusable, non-IFRAME, non-excluded target, events are still suspended
\* when the focus() of that call's callback executes.
C10_StillSuspendedAtFocus ==
  (IsTimer /\ last.suspendedAtCall /\ ~Excluded(last.resolved)) =>
    last.suspendedNow
====
